---- MODULE Spec2Model ----
(***************************************************************************)
(* Model of the GRANDPA proof-assembly engine                              *)
(* (algorithms/grandpa/prover/src/lib.rs) and of the ics10-grandpa Header  *)
(* wire conversions (light-clients/ics10-grandpa/src/header.rs).           *)
(*                                                                         *)
(* The prover is generic over T::Hash; a relay hash is an opaque value     *)
(* here (a small integer).  The Header conversions work on H256 and on the *)
(* byte strings of the wire form, and are modelled on byte sequences.      *)
(***************************************************************************)
EXTENDS Integers, Sequences, FiniteSets, TLC

\* ------------------------------------------------------------------ bounds
\* Number of blocks of the canonical (finalized) relay chain.
MaxBlock == 3
\* Largest parachain block number a committed head can carry.
MaxParaNum == 1
\* Longest parachain_headers list of a wire Header.
MaxEntries == 2
\* Longest unknown_headers list of a wire Header.
MaxUnknown == 2

\* ------------------------------------------------------- the relay chain
\* Option<T>: None is the empty sequence, Some(x) is <<x>>.
None == <<>>
Some(x) == <<x>>
Unwrap(o) == o[1]

\* The all-zero hash: the parent reference of the first block; names no block.
ZeroHash == 0
\* One block beside the canonical chain (a fork sibling of canonical block 2).
ForkHash == MaxBlock + 1
\* A hash that names no block at all.
UnknownHash == MaxBlock + 2
BlockHashes == 1..ForkHash
Hashes == ZeroHash..UnknownHash

\* Head bytes that do not decode as a parachain header; head bytes n >= 0 are
\* the encoding of the parachain header with number n.
BadBytes == -1
HeadValues == {None} \cup {Some(n) : n \in BadBytes..MaxParaNum}

\* rpc().header(Some(hash)) of the relay node: the header stored under the
\* hash, or None.  Blocks 1..MaxBlock form the canonical chain, ForkHash is a
\* second child of block 1.
RpcHeader(hash) ==
    IF hash \in 1..MaxBlock
    THEN Some([number |-> hash - 1, parent_hash |-> hash - 1, digest |-> 0])
    ELSE IF hash = ForkHash
    THEN Some([number |-> 1, parent_hash |-> 1, digest |-> 1])
    ELSE None

\* Header::hash(): the hash of a header's contents (collision-free: the node
\* stores each header under the hash of its contents).
HashOf(header) == CHOOSE h \in BlockHashes : RpcHeader(h) = Some(header)

\* Whether a is b or an ancestor of b.
RECURSIVE IsAncestorOrSelf(_, _)
IsAncestorOrSelf(a, b) ==
    IF b \notin BlockHashes THEN FALSE
    ELSE IF a = b THEN TRUE
    ELSE IsAncestorOrSelf(a, Unwrap(RpcHeader(b)).parent_hash)

\* grandpa_proveFinality(number): the finality proof of the finalized
\* (canonical) block with that number, None when there is none.
ProveFinality(number) ==
    IF number + 1 \in 1..MaxBlock
    THEN Some([block |-> number + 1,
               justification |-> <<"justification", number + 1>>,
               unknown_headers |-> <<>>])
    ELSE None

\* The blocks of the window (from, to], oldest first.
RECURSIVE Window(_, _)
Window(from, to) ==
    IF to = from \/ to \notin BlockHashes THEN <<>>
    ELSE Append(Window(from, Unwrap(RpcHeader(to)).parent_hash), to)

\* The value of the parachain-head key at a block of chain state hd (None
\* before the first block).
HeadAt(hd, hash) == IF hash \in BlockHashes THEN hd[hash] ELSE None

\* Whether the parachain-head key changed in block b.
Changed(hd, b) == hd[b] /= HeadAt(hd, Unwrap(RpcHeader(b)).parent_hash)

RECURSIVE SelectChanged(_, _)
SelectChanged(hd, blocks) ==
    IF blocks = <<>> THEN <<>>
    ELSE IF Changed(hd, Head(blocks))
         THEN <<Head(blocks)>> \o SelectChanged(hd, Tail(blocks))
         ELSE SelectChanged(hd, Tail(blocks))

\* storage().query_storage(keys, from, Some(to)): the change events of the
\* parachain-head key in (from, to], oldest first; an RPC error unless from is
\* to or an ancestor of to.
QueryStorage(hd, from, to) ==
    IF IsAncestorOrSelf(from, to)
    THEN [ok |-> TRUE, change_set |-> SelectChanged(hd, Window(from, to))]
    ELSE [ok |-> FALSE, change_set |-> <<>>]

\* rpc().read_proof(keys, Some(hash)): the storage proof of the head key.
ReadProof(hash) == <<"state_proof", hash>>

\* fetch_timestamp_extrinsic_with_proof(para_client, Some(para_hash)).
TimeStampExtWithProof(para_number) ==
    [ext |-> <<"timestamp", para_number>>, proof |-> <<"ext_proof", para_number>>]

\* ------------------------------------------------------------ the prover
\* anyhow::Error: every error of the prover is one type, told apart by its
\* message only.
Err(msg) == [tag |-> "Err", kind |-> "anyhow", msg |-> msg]
Ok(value) == [tag |-> "Ok", value |-> value]
Panic(msg) == [tag |-> "Panic", msg |-> msg]
Pending == [tag |-> "Pending"]

\* T::Header::decode of the head bytes.
DecodeParaHeader(bytes) ==
    IF bytes = BadBytes THEN None ELSE Some([number |-> bytes])

\* SkipHeader without the genesis test.
SkipHeaderNoGenesis(para_block_number, numbers) ==
    para_block_number \notin numbers

\* SkipHeader with the membership test inverted.
SkipHeaderInverted(para_block_number, numbers) ==
    para_block_number = 0 \/ para_block_number \in numbers

\* lib.rs:172, the skip condition of the scan.
SkipHeader(para_block_number, numbers) ==
    para_block_number = 0 \/ para_block_number \notin numbers

\* lib.rs:124, the loop exit of the ancestor walk.
WalkDone(cur, previous) == cur = previous

\* WalkStart comparing the hash of the starting header itself.
WalkStartAtSelf(header) ==
    [unknown_headers |-> <<>>, current |-> HashOf(header)]

\* lib.rs:121-122, the start of the ancestor walk.
WalkStart(header) ==
    [unknown_headers |-> <<header>>, current |-> header.parent_hash]

\* WalkPush inserting at the front.
WalkPushFront(unknown_headers, header) == <<header>> \o unknown_headers

\* lib.rs:133-134, one more ancestor.
WalkPush(unknown_headers, header) == Append(unknown_headers, header)

\* PushHeader inserting at the front.
PushHeaderFront(hs, para_header) == <<para_header>> \o hs

\* lib.rs:87.
PushHeader(hs, para_header) == Append(hs, para_header)

\* BTreeMap::insert.
Insert(map, key, value) ==
    [k \in DOMAIN map \cup {key} |-> IF k = key THEN value ELSE map[k]]

VARIABLES
    heads,                    \* relay block hash -> paras().heads value there
    pc,                       \* position of the call in progress
    op,                       \* "between" | "with_proof"
    latest_finalized_hash,
    previous_finalized_hash,
    header_numbers,
    header,                   \* the header at latest_finalized_hash
    finality_proof,
    current,
    change_set,               \* the change events not yet processed
    reported,                 \* the change events query_storage reported
    headers,                  \* accumulator of headers_between
    parachain_headers,        \* BTreeMap: relay hash -> ParachainHeaderProofs
    result,                   \* Pending until the call returns
    failed,                   \* the facade request or decode that failed
    block_header,             \* the header of the changed block of this turn
    para_header,              \* the parachain header decoded in this turn
    state_proof,              \* the storage proof read in this turn
    sent,                     \* the in-memory Header a peer encoded, if any
    raw_header,               \* the wire Header in flight
    converted                 \* Result<Header, Error> of try_from

vars == <<heads, pc, op, latest_finalized_hash, previous_finalized_hash,
          header_numbers, header, finality_proof, current, change_set,
          reported, headers, parachain_headers, result, failed,
          block_header, para_header, state_proof,
          sent, raw_header, converted>>

prover_vars == <<heads, pc, op, latest_finalized_hash,
                 previous_finalized_hash, header_numbers, header,
                 finality_proof, current, change_set, reported, headers,
                 parachain_headers, result, failed>>
scan_vars == <<block_header, para_header, state_proof>>
header_vars == <<sent, raw_header, converted>>

EmptyMap == [k \in {} |-> None]

\* ------------------------------------------------- the Header wire model
\* header.rs:63 and 73: the length of an H256.
HashLen == 32

Fill(b, n) == [i \in 1..n |-> b]
\* An H256 is a fixed array of HashLen bytes; a wire hash is a byte string.
H256FromSlice(bytes) == [h256 |-> bytes]
AsBytes(hash) == hash.h256

\* Byte strings a wire hash field can hold: three of the right length (the
\* third differs from the first in its last byte only) and two of a wrong one.
WireHashes ==
    {Fill(1, HashLen), Fill(2, HashLen), Fill(1, HashLen - 1) \o <<2>>,
     Fill(1, HashLen - 1), Fill(1, HashLen + 1)}
H256s == {H256FromSlice(b) : b \in {w \in WireHashes : Len(w) = HashLen}}

\* Ord for H256: byte-wise lexicographic.
HashLess(a, b) ==
    \E i \in 1..HashLen :
        /\ AsBytes(a)[i] < AsBytes(b)[i]
        /\ \A j \in 1..(i - 1) : AsBytes(a)[j] = AsBytes(b)[j]

\* BTreeMap::into_iter: the keys in ascending order.
RECURSIVE SortedKeys(_)
SortedKeys(keys) ==
    IF keys = {} THEN <<>>
    ELSE LET least == CHOOSE k \in keys :
                          \A other \in keys \ {k} : HashLess(k, other)
         IN <<least>> \o SortedKeys(keys \ {least})

SeqsUpTo(S, n) == UNION {[1..k -> S] : k \in 0..n}

\* Compact<u32>::encode, little-endian, in its three modes below 2^30 and the
\* four-byte big-integer mode above.
EncodeCompact(n) ==
    IF n < 64 THEN <<4 * n>>
    ELSE IF n < 16384
    THEN <<(4 * n + 1) % 256, (4 * n + 1) \div 256>>
    ELSE IF n < 1073741824
    THEN <<(4 * n + 2) % 256, ((4 * n + 2) \div 256) % 256,
           ((4 * n + 2) \div 65536) % 256, (4 * n + 2) \div 16777216>>
    ELSE <<3, n % 256, (n \div 256) % 256, (n \div 65536) % 256,
           n \div 16777216>>

\* Compact<u32>::decode: the value and the bytes consumed, None on a short or
\* non-canonical input.
DecodeCompact(bytes) ==
    IF Len(bytes) < 1 THEN None
    ELSE LET mode == bytes[1] % 4 IN
    IF mode = 0 THEN Some([value |-> bytes[1] \div 4, used |-> 1])
    ELSE IF mode = 1 THEN
        IF Len(bytes) < 2 THEN None
        ELSE LET x == (bytes[1] + 256 * bytes[2]) \div 4 IN
             IF x > 63 THEN Some([value |-> x, used |-> 2]) ELSE None
    ELSE IF mode = 2 THEN
        IF Len(bytes) < 4 THEN None
        ELSE LET x == (bytes[1] + 256 * bytes[2] + 65536 * bytes[3]
                          + 16777216 * bytes[4]) \div 4 IN
             IF x > 16383 THEN Some([value |-> x, used |-> 4]) ELSE None
    ELSE
        IF bytes[1] /= 3 \/ Len(bytes) < 5 THEN None
        ELSE LET x == bytes[2] + 256 * bytes[3] + 65536 * bytes[4]
                         + 16777216 * bytes[5] IN
             IF x > 1073741823 THEN Some([value |-> x, used |-> 5]) ELSE None

\* Encode for RelayChainHeader: parent_hash, compact number, state_root,
\* extrinsics_root, digest (a list of logs, empty here: its compact length 0).
EncodeHeader(h) ==
    AsBytes(h.parent_hash) \o EncodeCompact(h.number) \o AsBytes(h.state_root)
        \o AsBytes(h.extrinsics_root) \o <<0>>

\* Decode for RelayChainHeader; input left after the header is ignored.
DecodeHeader(bytes) ==
    IF Len(bytes) < HashLen THEN None
    ELSE LET number == DecodeCompact(SubSeq(bytes, HashLen + 1, Len(bytes)))
    IN IF number = None THEN None
    ELSE LET at == HashLen + Unwrap(number).used IN
    IF Len(bytes) < at + 2 * HashLen + 1 \/ bytes[at + 2 * HashLen + 1] /= 0
    THEN None
    ELSE Some([parent_hash |-> H256FromSlice(SubSeq(bytes, 1, HashLen)),
               number |-> Unwrap(number).value,
               state_root |->
                   H256FromSlice(SubSeq(bytes, at + 1, at + HashLen)),
               extrinsics_root |->
                   H256FromSlice(SubSeq(bytes, at + HashLen + 1,
                                        at + 2 * HashLen)),
               digest |-> <<>>])

\* Relay headers whose numbers take one, two and four bytes as a compact.
RelayChainHeaders ==
    {[parent_hash |-> H256FromSlice(Fill(1, HashLen)), number |-> 5,
      state_root |-> H256FromSlice(Fill(2, HashLen)),
      extrinsics_root |-> H256FromSlice(Fill(1, HashLen)), digest |-> <<>>],
     [parent_hash |-> H256FromSlice(Fill(2, HashLen)), number |-> 300,
      state_root |-> H256FromSlice(Fill(1, HashLen)),
      extrinsics_root |-> H256FromSlice(Fill(2, HashLen)), digest |-> <<>>],
     [parent_hash |-> H256FromSlice(Fill(2, HashLen)), number |-> 70000,
      state_root |-> H256FromSlice(Fill(2, HashLen)),
      extrinsics_root |-> H256FromSlice(Fill(2, HashLen)), digest |-> <<>>]}

\* Byte strings an unknown_headers item of a wire Header can hold: encoded
\* headers, one with a byte appended, and a truncated one.
WireHeaderBytes ==
    {EncodeHeader(h) : h \in RelayChainHeaders}
        \cup {EncodeHeader(h) \o <<7>> : h \in {x \in RelayChainHeaders : x.number = 5}}
        \cup {Fill(1, HashLen)}

\* ParachainHeaderProofs values (in memory).
ProofsValues ==
    {[state_proof |-> <<<<1>>, <<2>>>>, extrinsic |-> <<3>>,
      extrinsic_proof |-> <<<<4>>>>],
     [state_proof |-> <<>>, extrinsic |-> <<>>, extrinsic_proof |-> <<<<5>>>>]}

\* ParachainHeaderProofs with the two proofs exchanged.
RawProofsSwapped(proofs) ==
    [state_proof |-> proofs.extrinsic_proof,
     extrinsic |-> proofs.extrinsic,
     extrinsic_proof |-> proofs.state_proof]

\* header.rs:115-119: proto::ParachainHeaderProofs of a ParachainHeaderProofs.
RawProofs(proofs) ==
    [state_proof |-> proofs.state_proof,
     extrinsic |-> proofs.extrinsic,
     extrinsic_proof |-> proofs.extrinsic_proof]

\* header.rs:108-134: From<Header> for RawHeader.
RawFromHeader(h) ==
    LET keys == SortedKeys(DOMAIN h.parachain_headers) IN
    [finality_proof |->
        Some([block |-> AsBytes(h.finality_proof.block),
              justification |-> h.finality_proof.justification,
              unknown_headers |->
                  [i \in 1..Len(h.finality_proof.unknown_headers) |->
                      EncodeHeader(h.finality_proof.unknown_headers[i])]]),
     parachain_headers |->
        [i \in 1..Len(keys) |->
            [relay_hash |-> AsBytes(keys[i]),
             parachain_header |-> Some(RawProofs(h.parachain_headers[keys[i]]))]]]

\* Error of the light client: its message and, for a hash of a wrong length,
\* the length reported.
HeaderErr(msg, len) == [tag |-> "Err", msg |-> msg, len |-> len]
InvalidHash(len) == HeaderErr("Invalid hash type with length", len)

\* The length test accepting every hash up to HashLen bytes.
HashLenOkUpTo(len) == len <= HashLen

\* header.rs:63 and 73: the length test of a wire hash.
HashLenOk(len) == len = HashLen

\* header.rs:63-67 and 73-77: a wire hash as an H256 (H256::from_slice panics
\* on a slice of another length).
ConvertHash(bytes) ==
    IF HashLenOk(Len(bytes))
    THEN IF Len(bytes) = HashLen THEN Ok(H256FromSlice(bytes))
         ELSE Panic("from_slice")
    ELSE InvalidHash(Len(bytes))

\* header.rs:72-85: one entry of the list, as a (hash, proofs) pair.
ConvertEntry(entry) ==
    LET block == ConvertHash(entry.relay_hash) IN
    IF block.tag /= "Ok" THEN block
    ELSE IF entry.parachain_header = None
    THEN HeaderErr("Parachain header is required!", 0)
    ELSE LET p == Unwrap(entry.parachain_header) IN
         Ok([key |-> block.value,
             proofs |-> [state_proof |-> p.state_proof,
                         extrinsic |-> p.extrinsic,
                         extrinsic_proof |-> p.extrinsic_proof]])

\* header.rs:69-86: collect::<Result<BTreeMap, Error>>: the entries in list
\* order, up to the first error; a later entry replaces an earlier one of the
\* same key.
RECURSIVE CollectEntries(_, _)
CollectEntries(entries, map) ==
    IF entries = <<>> THEN Ok(map)
    ELSE LET e == ConvertEntry(Head(entries)) IN
         IF e.tag /= "Ok" THEN e
         ELSE CollectEntries(Tail(entries),
                             Insert(map, e.value.key, e.value.proofs))

\* header.rs:88-95: collect::<Result<Vec, Error>> of the decoded headers.
RECURSIVE CollectHeaders(_, _)
CollectHeaders(items, acc) ==
    IF items = <<>> THEN Ok(acc)
    ELSE LET h == DecodeHeader(Head(items)) IN
         IF h = None THEN HeaderErr("codec", 0)
         ELSE CollectHeaders(Tail(items), Append(acc, Unwrap(h)))

\* header.rs:56-106: TryFrom<RawHeader> for Header.
TryFromRaw(raw) ==
    IF raw.finality_proof = None
    THEN HeaderErr("Grandpa finality proof is required!", 0)
    ELSE LET fp == Unwrap(raw.finality_proof)
             block == ConvertHash(fp.block)
             entries == CollectEntries(raw.parachain_headers, EmptyMap)
             unknown == CollectHeaders(fp.unknown_headers, <<>>)
    IN IF block.tag /= "Ok" THEN block
       ELSE IF entries.tag /= "Ok" THEN entries
       ELSE IF unknown.tag /= "Ok" THEN unknown
       ELSE Ok([finality_proof |->
                    [block |-> block.value,
                     justification |-> fp.justification,
                     unknown_headers |-> unknown.value],
                parachain_headers |-> entries.value])

\* The wire Headers a peer can send.
RawEntries ==
    [relay_hash : WireHashes \ {Fill(1, HashLen - 1) \o <<2>>},
     parachain_header : {None} \cup {Some(RawProofs(p)) : p \in ProofsValues}]
RawHeaders ==
    [finality_proof :
        {None} \cup
        {Some(f) : f \in [block : WireHashes \ {Fill(1, HashLen - 1) \o <<2>>},
                          justification : {<<9>>},
                          unknown_headers :
                              SeqsUpTo(WireHeaderBytes, MaxUnknown)]},
     parachain_headers : SeqsUpTo(RawEntries, MaxEntries)]

\* The well-formed in-memory Headers.
ProofMaps ==
    UNION {[keys -> ProofsValues] :
              keys \in {k \in SUBSET H256s : Cardinality(k) <= MaxEntries}}
Headers ==
    [finality_proof :
        [block : H256s, justification : {<<9>>},
         unknown_headers : SeqsUpTo(RelayChainHeaders, MaxUnknown)],
     parachain_headers : ProofMaps]

ProverIdle ==
    /\ pc = "idle"
    /\ op = "none"
    /\ latest_finalized_hash = ZeroHash
    /\ previous_finalized_hash = ZeroHash
    /\ header_numbers = {}
    /\ header = None
    /\ finality_proof = None
    /\ current = ZeroHash
    /\ change_set = <<>>
    /\ reported = <<>>
    /\ headers = <<>>
    /\ parachain_headers = EmptyMap
    /\ result = Pending
    /\ failed = "none"
    /\ block_header = None
    /\ para_header = None
    /\ state_proof = None

HeaderIdle ==
    /\ sent = None
    /\ raw_header = None
    /\ converted = Pending

Init ==
    /\ heads \in [BlockHashes -> HeadValues]
    /\ ProverIdle
    /\ HeaderIdle

\* The call returns r; f names the request that failed ("none" on success).
Return(r, f) ==
    /\ pc' = "done"
    /\ result' = r
    /\ failed' = f

\* A caller invokes query_finalized_parachain_headers_between.
CallBetween ==
    /\ pc = "idle"
    /\ \E l \in Hashes, p \in Hashes :
        /\ latest_finalized_hash' = l
        /\ previous_finalized_hash' = p
    /\ op' = "between"
    /\ pc' = "query"
    /\ UNCHANGED header_vars
    /\ UNCHANGED scan_vars
    /\ UNCHANGED <<heads, header_numbers, header, finality_proof, current,
                   change_set, reported, headers, parachain_headers, result,
                   failed>>

\* A caller invokes query_finalized_parachain_headers_with_proof.
CallWithProof ==
    /\ pc = "idle"
    /\ \E l \in Hashes, p \in Hashes, ns \in SUBSET (0..MaxParaNum) :
        /\ latest_finalized_hash' = l
        /\ previous_finalized_hash' = p
        /\ header_numbers' = ns
    /\ op' = "with_proof"
    /\ pc' = "header"
    /\ UNCHANGED header_vars
    /\ UNCHANGED scan_vars
    /\ UNCHANGED <<heads, header, finality_proof, current, change_set,
                   reported, headers, parachain_headers, result, failed>>

\* lib.rs:105-110: the header at latest_finalized_hash.
FetchLatest ==
    /\ pc = "header"
    /\ \E rpc_ok \in BOOLEAN :
        LET h == RpcHeader(latest_finalized_hash) IN
        IF ~rpc_ok THEN
            /\ Return(Err("rpc"), "header")
            /\ UNCHANGED header
        ELSE IF h = None THEN
            /\ Return(Err("Header not found!"), "header")
            /\ UNCHANGED header
        ELSE
            /\ header' = h
            /\ pc' = "prove"
            /\ UNCHANGED <<result, failed>>
    /\ UNCHANGED header_vars
    /\ UNCHANGED scan_vars
    /\ UNCHANGED <<heads, op, latest_finalized_hash, previous_finalized_hash,
                   header_numbers, finality_proof, current, change_set,
                   reported, headers, parachain_headers>>

\* lib.rs:112-122: the justification, decoded, and the start of the walk.
ProveAndDecode ==
    /\ pc = "prove"
    /\ \E answer \in {"proof", "rpc_err", "none", "bad_bytes"} :
        LET proof == IF answer = "proof"
                     THEN ProveFinality(Unwrap(header).number) ELSE None
            start == WalkStart(Unwrap(header))
        IN
        IF answer = "rpc_err" THEN
            /\ Return(Err("rpc"), "prove_finality")
            /\ UNCHANGED <<finality_proof, current>>
        ELSE IF answer = "bad_bytes" THEN
            /\ Return(Err("codec"), "decode_finality_proof")
            /\ UNCHANGED <<finality_proof, current>>
        ELSE IF proof = None THEN
            /\ Return(Err("No justification found for block"), "prove_finality")
            /\ UNCHANGED <<finality_proof, current>>
        ELSE
            /\ finality_proof' =
                 Some([Unwrap(proof) EXCEPT !.unknown_headers = start.unknown_headers])
            /\ current' = start.current
            /\ pc' = "walk"
            /\ UNCHANGED <<result, failed>>
    /\ UNCHANGED header_vars
    /\ UNCHANGED scan_vars
    /\ UNCHANGED <<heads, op, latest_finalized_hash, previous_finalized_hash,
                   header_numbers, header, change_set, reported, headers,
                   parachain_headers>>

\* lib.rs:123-135: one turn of the ancestor walk.
Walk ==
    /\ pc = "walk"
    /\ \E rpc_ok \in BOOLEAN :
        LET h == RpcHeader(current) IN
        IF WalkDone(current, previous_finalized_hash) THEN
            /\ pc' = "query"
            /\ UNCHANGED <<finality_proof, current, result, failed>>
        ELSE IF ~rpc_ok THEN
            /\ Return(Err("rpc"), "header")
            /\ UNCHANGED <<finality_proof, current>>
        ELSE IF h = None THEN
            /\ Return(Err("Header with hash not found!"), "header")
            /\ UNCHANGED <<finality_proof, current>>
        ELSE
            /\ current' = Unwrap(h).parent_hash
            /\ finality_proof' =
                 Some([Unwrap(finality_proof) EXCEPT !.unknown_headers =
                          WalkPush(@, Unwrap(h))])
            /\ UNCHANGED <<pc, result, failed>>
    /\ UNCHANGED header_vars
    /\ UNCHANGED scan_vars
    /\ UNCHANGED <<heads, op, latest_finalized_hash, previous_finalized_hash,
                   header_numbers, header, change_set, reported, headers,
                   parachain_headers>>

\* lib.rs:60-69 and 141-145: the change events of the window.
Query ==
    /\ pc = "query"
    /\ \E rpc_ok \in BOOLEAN :
        LET q == QueryStorage(heads, previous_finalized_hash,
                              latest_finalized_hash) IN
        IF ~rpc_ok \/ ~q.ok THEN
            /\ Return(Err("rpc"), "query_storage")
            /\ UNCHANGED <<change_set, reported>>
        ELSE
            /\ change_set' = q.change_set
            /\ reported' = q.change_set
            /\ pc' = "scan"
            /\ UNCHANGED <<result, failed>>
    /\ UNCHANGED header_vars
    /\ UNCHANGED scan_vars
    /\ UNCHANGED <<heads, op, latest_finalized_hash, previous_finalized_hash,
                   header_numbers, header, finality_proof, current, headers,
                   parachain_headers>>

\* Every facade request below is an .await of its own: the call is suspended
\* there, and the step that follows it handles the answer.  rpc_ok is the
\* answer of the transport.

\* lib.rs:72-76: the turn of headers_between for the next change event: the
\* header of the changed block.
BetweenHeader ==
    /\ pc = "scan"
    /\ op = "between"
    /\ change_set /= <<>>
    /\ \E rpc_ok \in BOOLEAN :
        LET h == RpcHeader(Head(change_set)) IN
        IF ~rpc_ok THEN
            /\ Return(Err("rpc"), "header")
            /\ UNCHANGED block_header
        ELSE IF h = None THEN
            /\ Return(Err("[get_parachain_headers] block not found"), "header")
            /\ UNCHANGED block_header
        ELSE
            /\ block_header' = h
            /\ pc' = "heads"
            /\ UNCHANGED <<result, failed>>
    /\ UNCHANGED header_vars
    /\ UNCHANGED <<heads, op, latest_finalized_hash, previous_finalized_hash,
                   header_numbers, header, finality_proof, current,
                   change_set, reported, headers, parachain_headers,
                   para_header, state_proof>>

\* lib.rs:78-88: the head committed at that block, decoded and pushed.
BetweenHeads ==
    /\ pc = "heads"
    /\ op = "between"
    /\ \E rpc_ok \in BOOLEAN :
        LET head == heads[HashOf(Unwrap(block_header))]
            decoded == DecodeParaHeader(Unwrap(head))
        IN
        IF ~rpc_ok THEN
            /\ Return(Err("rpc"), "heads")
            /\ UNCHANGED <<change_set, headers, block_header>>
        ELSE IF head = None THEN
            /\ Return(Panic("Header exists in its own changeset; qed"), "heads")
            /\ UNCHANGED <<change_set, headers, block_header>>
        ELSE IF decoded = None THEN
            /\ Return(Err("Failed to decode header"), "decode_para_header")
            /\ UNCHANGED <<change_set, headers, block_header>>
        ELSE
            /\ headers' = PushHeader(headers, Unwrap(decoded))
            /\ change_set' = Tail(change_set)
            /\ block_header' = None
            /\ pc' = "scan"
            /\ UNCHANGED <<result, failed>>
    /\ UNCHANGED header_vars
    /\ UNCHANGED <<heads, op, latest_finalized_hash, previous_finalized_hash,
                   header_numbers, header, finality_proof, current, reported,
                   parachain_headers, para_header, state_proof>>

\* lib.rs:153-159: the turn of headers_with_proof for the next change event:
\* the header of the changed block.
ProofHeader ==
    /\ pc = "scan"
    /\ op = "with_proof"
    /\ change_set /= <<>>
    /\ \E rpc_ok \in BOOLEAN :
        LET h == RpcHeader(Head(change_set)) IN
        IF ~rpc_ok THEN
            /\ Return(Err("rpc"), "header")
            /\ UNCHANGED block_header
        ELSE IF h = None THEN
            /\ Return(Err("block not found"), "header")
            /\ UNCHANGED block_header
        ELSE
            /\ block_header' = h
            /\ pc' = "heads"
            /\ UNCHANGED <<result, failed>>
    /\ UNCHANGED header_vars
    /\ UNCHANGED <<heads, op, latest_finalized_hash, previous_finalized_hash,
                   header_numbers, header, finality_proof, current,
                   change_set, reported, headers, parachain_headers,
                   para_header, state_proof>>

\* lib.rs:161-174: the head committed at that block, decoded; the turn ends
\* here for a header that is skipped.
ProofHeads ==
    /\ pc = "heads"
    /\ op = "with_proof"
    /\ \E rpc_ok \in BOOLEAN :
        LET head == heads[HashOf(Unwrap(block_header))]
            decoded == DecodeParaHeader(Unwrap(head))
            para_block_number == Unwrap(decoded).number
        IN
        IF ~rpc_ok THEN
            /\ Return(Err("rpc"), "heads")
            /\ UNCHANGED <<change_set, block_header, para_header>>
        ELSE IF head = None THEN
            /\ Return(Panic("Header exists in its own changeset; qed"), "heads")
            /\ UNCHANGED <<change_set, block_header, para_header>>
        ELSE IF decoded = None THEN
            /\ Return(Err("codec"), "decode_para_header")
            /\ UNCHANGED <<change_set, block_header, para_header>>
        ELSE IF SkipHeader(para_block_number, header_numbers) THEN
            /\ change_set' = Tail(change_set)
            /\ block_header' = None
            /\ pc' = "scan"
            /\ UNCHANGED <<para_header, result, failed>>
        ELSE
            /\ para_header' = decoded
            /\ pc' = "read_proof"
            /\ UNCHANGED <<change_set, block_header, result, failed>>
    /\ UNCHANGED header_vars
    /\ UNCHANGED <<heads, op, latest_finalized_hash, previous_finalized_hash,
                   header_numbers, header, finality_proof, current, reported,
                   headers, parachain_headers, state_proof>>

\* lib.rs:176-184: the storage proof of the head key at that block.
ProofReadProof ==
    /\ pc = "read_proof"
    /\ \E rpc_ok \in BOOLEAN :
        IF ~rpc_ok THEN
            /\ Return(Err("rpc"), "read_proof")
            /\ UNCHANGED state_proof
        ELSE
            /\ state_proof' = Some(ReadProof(HashOf(Unwrap(block_header))))
            /\ pc' = "timestamp"
            /\ UNCHANGED <<result, failed>>
    /\ UNCHANGED header_vars
    /\ UNCHANGED <<heads, op, latest_finalized_hash, previous_finalized_hash,
                   header_numbers, header, finality_proof, current,
                   change_set, reported, headers, parachain_headers,
                   block_header, para_header>>

\* lib.rs:186-191: the timestamp extrinsic of the parachain block with its
\* proof, and the entry inserted under the hash of the relay block.
ProofTimestamp ==
    /\ pc = "timestamp"
    /\ \E rpc_ok \in BOOLEAN :
        LET ts == TimeStampExtWithProof(Unwrap(para_header).number)
            proofs == [state_proof |-> Unwrap(state_proof),
                       extrinsic |-> ts.ext,
                       extrinsic_proof |-> ts.proof]
        IN
        IF ~rpc_ok THEN
            /\ Return(Err("Error fetching timestamp with proof"), "timestamp")
            /\ UNCHANGED <<change_set, parachain_headers, block_header,
                           para_header, state_proof>>
        ELSE
            /\ parachain_headers' =
                 Insert(parachain_headers, HashOf(Unwrap(block_header)), proofs)
            /\ change_set' = Tail(change_set)
            /\ block_header' = None
            /\ para_header' = None
            /\ state_proof' = None
            /\ pc' = "scan"
            /\ UNCHANGED <<result, failed>>
    /\ UNCHANGED header_vars
    /\ UNCHANGED <<heads, op, latest_finalized_hash, previous_finalized_hash,
                   header_numbers, header, finality_proof, current, reported,
                   headers>>

\* lib.rs:90: Ok(headers).
ReturnBetween ==
    /\ pc = "scan"
    /\ op = "between"
    /\ change_set = <<>>
    /\ Return(Ok(headers), "none")
    /\ UNCHANGED header_vars
    /\ UNCHANGED scan_vars
    /\ UNCHANGED <<heads, op, latest_finalized_hash, previous_finalized_hash,
                   header_numbers, header, finality_proof, current, change_set,
                   reported, headers, parachain_headers>>

\* lib.rs:194: Ok(ParachainHeadersWithFinalityProof { .. }).
ReturnWithProof ==
    /\ pc = "scan"
    /\ op = "with_proof"
    /\ change_set = <<>>
    /\ Return(Ok([finality_proof |-> Unwrap(finality_proof),
                  parachain_headers |-> parachain_headers]), "none")
    /\ UNCHANGED header_vars
    /\ UNCHANGED scan_vars
    /\ UNCHANGED <<heads, op, latest_finalized_hash, previous_finalized_hash,
                   header_numbers, header, finality_proof, current, change_set,
                   reported, headers, parachain_headers>>

Next ==
    \/ CallBetween
    \/ CallWithProof
    \/ FetchLatest
    \/ ProveAndDecode
    \/ Walk
    \/ Query
    \/ BetweenHeader
    \/ BetweenHeads
    \/ ProofHeader
    \/ ProofHeads
    \/ ProofReadProof
    \/ ProofTimestamp
    \/ ReturnBetween
    \/ ReturnWithProof

Spec == Init /\ [][Next]_vars

\* ------------------------------------------- the Header wire conversions
\* A peer turns an in-memory Header into its wire form and sends it.
SendHeader ==
    /\ raw_header = None
    /\ \E h \in Headers :
        /\ sent' = Some(h)
        /\ raw_header' = Some(RawFromHeader(h))
    /\ UNCHANGED converted
    /\ UNCHANGED prover_vars
    /\ UNCHANGED scan_vars

\* A wire Header of any content arrives.
ReceiveRaw ==
    /\ raw_header = None
    /\ \E raw \in RawHeaders : raw_header' = Some(raw)
    /\ UNCHANGED <<sent, converted>>
    /\ UNCHANGED prover_vars
    /\ UNCHANGED scan_vars

\* Header::try_from on the wire Header in flight.
TryFrom ==
    /\ raw_header /= None
    /\ converted = Pending
    /\ converted' = TryFromRaw(Unwrap(raw_header))
    /\ UNCHANGED <<sent, raw_header>>
    /\ UNCHANGED prover_vars
    /\ UNCHANGED scan_vars

HeaderInit ==
    /\ heads = [b \in BlockHashes |-> None]
    /\ ProverIdle
    /\ HeaderIdle

HeaderNext ==
    \/ SendHeader
    \/ ReceiveRaw
    \/ TryFrom

HeaderSpec == HeaderInit /\ [][HeaderNext]_vars

\* ---------------------------------------------------------------- claims
Done == pc = "done"
ReturnedBundle == Done /\ op = "with_proof" /\ result.tag = "Ok"
ReturnedHeaders == Done /\ op = "between" /\ result.tag = "Ok"
SeqToSet(q) == {q[i] : i \in 1..Len(q)}
\* The parachain block number committed at relay block b (-1 when the head is
\* absent or does not decode).
ParaNumberAt(b) ==
    IF heads[b] = None \/ heads[b] = Some(BadBytes) THEN BadBytes
    ELSE Unwrap(heads[b])

\* C1: in every returned bundle, each unknown header's parent_hash is the hash
\* of the next unknown header, and the last one's parent_hash is the supplied
\* previous_finalized_hash.
C1_Contiguity ==
    ReturnedBundle =>
        LET uh == result.value.finality_proof.unknown_headers IN
        /\ Len(uh) >= 1
        /\ \A i \in 1..(Len(uh) - 1) : uh[i].parent_hash = HashOf(uh[i + 1])
        /\ uh[Len(uh)].parent_hash = previous_finalized_hash

\* A bundle whose unknown-header chain has two headers or more.
C1_Witness ==
    /\ ReturnedBundle
    /\ Len(result.value.finality_proof.unknown_headers) >= 2

\* C4: every key of a returned parachain_headers map is a relay block the
\* change-set scan reported, whose committed parachain header has a number
\* that is non-zero and among the requested header_numbers.
C4_GenesisAndTargetFilter ==
    ReturnedBundle =>
        \A k \in DOMAIN result.value.parachain_headers :
            /\ k \in SeqToSet(reported)
            /\ ParaNumberAt(k) /= 0
            /\ ParaNumberAt(k) \in header_numbers

\* A bundle with an entry, returned although a scanned block committed the
\* genesis header and zero was requested.
C4_Witness ==
    /\ ReturnedBundle
    /\ DOMAIN result.value.parachain_headers /= {}
    /\ 0 \in header_numbers
    /\ \E b \in SeqToSet(reported) : ParaNumberAt(b) = 0

\* The relay blocks of the window (previous, latest] at which the parachain
\* head changed to a number in ns.
ChangedTo(ns) ==
    {b \in SeqToSet(Window(previous_finalized_hash, latest_finalized_hash)) :
        Changed(heads, b) /\ ParaNumberAt(b) \in ns}

\* C5 as stated: the key set of a returned parachain_headers map is exactly
\* the relay blocks of the window at which the head changed to one of the
\* requested numbers, for every choice of the requested numbers.
C5_KeySetExact_Original ==
    ReturnedBundle =>
        DOMAIN result.value.parachain_headers = ChangedTo(header_numbers)

\* C5 amended: the key set of a returned parachain_headers map is exactly the
\* relay blocks of the window at which the head changed to one of the
\* requested non-zero numbers.
C5_KeySetExact ==
    ReturnedBundle =>
        DOMAIN result.value.parachain_headers = ChangedTo(header_numbers \ {0})

\* A bundle with an entry, for a request that names zero, over a window in
\* which the head also changed to the genesis header.
C5_Witness ==
    /\ ReturnedBundle
    /\ Cardinality(DOMAIN result.value.parachain_headers) >= 1
    /\ 0 \in header_numbers
    /\ ChangedTo({0}) /= {}
    /\ ChangedTo(header_numbers \ {0}) /= {}

\* C6 as stated: in every returned bundle finality_proof.block is the hash of
\* unknown_headers[0], the relay header fetched at latest_finalized_hash.
C6_BlockIsFirstUnknownHeader ==
    ReturnedBundle =>
        result.value.finality_proof.block =
            HashOf(result.value.finality_proof.unknown_headers[1])

\* C7 as stated: a headers-with-proof call whose previous_finalized_hash is
\* not an ancestor of latest_finalized_hash returns no bundle and fails with
\* an error of its own kind, ChainDiscontinuity.
C7_ChainDiscontinuity ==
    (/\ Done
     /\ op = "with_proof"
     /\ latest_finalized_hash \in BlockHashes
     /\ ~IsAncestorOrSelf(previous_finalized_hash, latest_finalized_hash)
     /\ failed = "header"
     /\ result.msg /= "rpc")
        => result.tag = "Err" /\ result.kind = "ChainDiscontinuity"

\* C8 as stated: if any facade request or decode of a headers-with-proof call
\* fails or returns nothing, the call returns an error; a bundle is returned
\* only when nothing failed.
C8_AllOrNothing ==
    (Done /\ op = "with_proof") =>
        /\ failed /= "none" => result.tag = "Err"
        /\ result.tag = "Ok" => failed = "none"

\* C9: on success, headers-between returns one decoded parachain header per
\* change event of the window (previous, latest], in the order the events
\* were reported.
C9_BetweenInOrder ==
    ReturnedHeaders =>
        /\ reported = SelectChanged(heads, Window(previous_finalized_hash,
                                                  latest_finalized_hash))
        /\ Len(result.value) = Len(reported)
        /\ \A i \in 1..Len(reported) :
              result.value[i] = [number |-> ParaNumberAt(reported[i])]

\* headers-between returned two different headers.
C9_Witness ==
    /\ ReturnedHeaders
    /\ Len(result.value) >= 2
    /\ result.value[1] /= result.value[2]

\* C10: a headers-with-proof call with previous_finalized_hash equal to
\* latest_finalized_hash never returns a bundle; when the walk is reached and
\* no request fails on the way, it walks back past the first block and ends
\* there with the header-not-found error of the walk.
C10_EqualHashesNeverReturn ==
    (Done /\ op = "with_proof"
          /\ previous_finalized_hash = latest_finalized_hash) =>
        /\ result.tag = "Err"
        /\ result.msg \in {"rpc", "codec", "No justification found for block",
                           "Header not found!", "Header with hash not found!"}
        /\ result.msg = "Header with hash not found!" =>
              LET uh == Unwrap(finality_proof).unknown_headers IN
              /\ current = ZeroHash
              /\ HashOf(uh[1]) = latest_finalized_hash
              /\ uh[Len(uh)].parent_hash = ZeroHash

\* The walk of a call with equal hashes ended past the first block.
C10_Witness ==
    /\ Done
    /\ op = "with_proof"
    /\ previous_finalized_hash = latest_finalized_hash
    /\ latest_finalized_hash \in BlockHashes
    /\ result.msg = "Header with hash not found!"

\* The wire Header in flight has been converted.
Converted == raw_header /= None /\ converted /= Pending
\* The hash fields of a wire Header in check order: block, then each entry's
\* relay_hash; and the lengths among them that are not HashLen.
WireBlock(raw) ==
    IF raw.finality_proof = None THEN <<>>
    ELSE <<Unwrap(raw.finality_proof).block>>
OffendingLengths(raw) ==
    ({Len(WireBlock(raw)[i]) : i \in 1..Len(WireBlock(raw))}
        \cup {Len(raw.parachain_headers[i].relay_hash) :
                 i \in 1..Len(raw.parachain_headers)})
        \ {HashLen}
\* The first entry of the list that try_from rejects (0 when there is none).
FirstRejected(entries) ==
    IF \E i \in 1..Len(entries) :
           Len(entries[i].relay_hash) /= HashLen
               \/ entries[i].parachain_header = None
    THEN CHOOSE i \in 1..Len(entries) :
           /\ Len(entries[i].relay_hash) /= HashLen
                  \/ entries[i].parachain_header = None
           /\ \A j \in 1..(i - 1) :
                  /\ Len(entries[j].relay_hash) = HashLen
                  /\ entries[j].parachain_header /= None
    ELSE 0

\* C2: converting a well-formed in-memory Header to the wire form and back
\* succeeds and yields a Header equal to it in block, justification,
\* unknown_headers and parachain_headers.
C2_RoundTrip ==
    (Converted /\ sent /= None) => converted = Ok(Unwrap(sent))

\* A Header with two unknown headers and two map entries went to the wire and
\* came back.
C2_Witness ==
    /\ Converted
    /\ sent /= None
    /\ converted.tag = "Ok"
    /\ Len(converted.value.finality_proof.unknown_headers) >= 2
    /\ Cardinality(DOMAIN converted.value.parachain_headers) >= 2

\* C3 as stated: converting a wire Header (one with its finality proof) whose
\* block, or the relay_hash of an entry at any position, is not HashLen bytes
\* long fails with the error that reports the offending length, and
\* constructs no Header.
C3_HashLengthRejected_Original ==
    (/\ Converted
     /\ Unwrap(raw_header).finality_proof /= None
     /\ OffendingLengths(Unwrap(raw_header)) /= {}) =>
        /\ converted.tag = "Err"
        /\ converted.msg = "Invalid hash type with length"
        /\ converted.len \in OffendingLengths(Unwrap(raw_header))

\* C3 amended: such a conversion always fails and constructs no Header; the
\* error is the first one in check order: the missing finality proof, else
\* the length of block when it is wrong, else whatever the first rejected
\* entry of the list is rejected for: the length of its relay_hash when that
\* is wrong, else its missing parachain_header.
C3_HashLengthRejected ==
    (Converted /\ OffendingLengths(Unwrap(raw_header)) /= {}) =>
        LET raw == Unwrap(raw_header)
            entries == raw.parachain_headers
            k == FirstRejected(entries)
        IN
        /\ converted.tag = "Err"
        /\ IF raw.finality_proof = None
           THEN converted.msg = "Grandpa finality proof is required!"
           ELSE IF Len(Unwrap(raw.finality_proof).block) /= HashLen
           THEN converted = InvalidHash(Len(Unwrap(raw.finality_proof).block))
           ELSE IF Len(entries[k].relay_hash) /= HashLen
           THEN converted = InvalidHash(Len(entries[k].relay_hash))
           ELSE converted.msg = "Parachain header is required!"

\* A wire Header with a sound first entry and a second entry whose relay_hash
\* is one byte short was rejected with that length.
C3_Witness ==
    /\ Converted
    /\ Len(Unwrap(raw_header).parachain_headers) = 2
    /\ Len(Unwrap(raw_header).parachain_headers[1].relay_hash) = HashLen
    /\ Len(Unwrap(raw_header).parachain_headers[2].relay_hash) = HashLen - 1
    /\ converted = InvalidHash(HashLen - 1)
====
